---- MODULE Spec2Model ----
(***************************************************************************)
(* A model of rendering.py: the box-layout engine (Block, Element,         *)
(* HorizontalLine, VerticalLine, Column, Row) and the table assembly       *)
(* TransportationProblemTableFormatter.                                    *)
(*                                                                         *)
(* Objects live in `heap`, a sequence of records; an object's identity is  *)
(* its index.  A Python str is a TLA+ string (Len and \o are its len and   *)
(* +), a List[str] a sequence of strings.                                  *)
(***************************************************************************)
EXTENDS Integers, Sequences, FiniteSets, TLC

\* heap:     the blocks constructed so far (kind, text, blocks, width, height)
\* rendered: the block whose get_formatted_list() was the last call, else 0
\* out:      the lines that call returned
\* calls:    the number of API calls the caller has made
\* input:    s_array, c_array, d_array of the table formatter
\* table:    the block format() returned (self.table), 0 for None
VARIABLES heap, rendered, out, calls, input, table

vars == <<heap, rendered, out, calls, input, table>>

(***************************************************************************)
(* Bounds of the model.                                                    *)
(***************************************************************************)
\* calls a caller makes to the engine's API in one run
MaxCalls == 5
\* the same, in the runs of ShortSpec
ShortCalls == 4
\* largest argument passed to set_width / set_height by a caller
MaxSize == 2
\* longest text of an Element constructed by a caller
MaxTextLen == 1
\* the Element of ElementSpec: longest text, largest setter argument
MaxElementTextLen == 3
MaxElementSize == 6
\* table assembly: number of sources, of destinations, digits of a value
MaxSources == 2
MaxDestinations == 2
MaxDigits == 2

HORIZONTAL_DELIMITER == "-"
VERTICAL_DELIMITER == "|"

Max2(a, b) == IF a >= b THEN a ELSE b

\* the str  c * n  (empty for n <= 0)
RECURSIVE Repeat(_, _)
Repeat(c, n) == IF n <= 0 THEN "" ELSE c \o Repeat(c, n - 1)

\* the list  [x] * n, or [x for i in range(n)]  (empty for n <= 0)
RECURSIVE ListOf(_, _)
ListOf(x, n) == IF n <= 0 THEN <<>> ELSE <<x>> \o ListOf(x, n - 1)

\* max() and sum() of a list of integers, as the containers apply them to a
\* non-empty list of their children's minimums
RECURSIVE MaxOf(_)
MaxOf(s) == IF Len(s) = 1 THEN s[1] ELSE Max2(s[1], MaxOf(Tail(s)))

RECURSIVE SumOf(_)
SumOf(s) == IF s = <<>> THEN 0 ELSE s[1] + SumOf(Tail(s))

(***************************************************************************)
(* Block: minimum sizes.                                                   *)
(***************************************************************************)
ElementMinWidth(text) == Len(text) + 2

ColumnMinWidthSum(ws) == IF ws = <<>> THEN 0 ELSE SumOf(ws)
ColumnMinWidth(ws) == IF ws = <<>> THEN 0 ELSE MaxOf(ws)

ColumnMinHeight(hs) == IF hs = <<>> THEN 0 ELSE SumOf(hs)

RowMinWidth(ws) == IF ws = <<>> THEN 0 ELSE SumOf(ws)

RowMinHeightSum(hs) == IF hs = <<>> THEN 0 ELSE SumOf(hs)
RowMinHeight(hs) == IF hs = <<>> THEN 0 ELSE MaxOf(hs)

\* [e.get_min_width() for e in blocks], [e.get_min_height() for e in blocks]
RECURSIVE get_min_width(_, _)
RECURSIVE get_min_height(_, _)
RECURSIVE MinWidths(_, _)
RECURSIVE MinHeights(_, _)

MinWidths(h, blocks) ==
    IF blocks = <<>> THEN <<>>
    ELSE <<get_min_width(h, blocks[1])>> \o MinWidths(h, Tail(blocks))

MinHeights(h, blocks) ==
    IF blocks = <<>> THEN <<>>
    ELSE <<get_min_height(h, blocks[1])>> \o MinHeights(h, Tail(blocks))

get_min_width(h, b) ==
    LET o == h[b]
        ws == MinWidths(h, o.blocks)
    IN CASE o.kind = "Element" -> ElementMinWidth(o.text)
         [] o.kind = "HorizontalLine" -> 0
         [] o.kind = "VerticalLine" -> 1
         [] o.kind = "Column" -> ColumnMinWidth(ws)
         [] o.kind = "Row" -> RowMinWidth(ws)

get_min_height(h, b) ==
    LET o == h[b]
        hs == MinHeights(h, o.blocks)
    IN CASE o.kind = "Element" -> 1
         [] o.kind = "HorizontalLine" -> 1
         [] o.kind = "VerticalLine" -> 0
         [] o.kind = "Column" -> ColumnMinHeight(hs)
         [] o.kind = "Row" -> RowMinHeight(hs)

(***************************************************************************)
(* Block: setters and construction.                                        *)
(***************************************************************************)
set_width_assign(h, b, width) == [h EXCEPT ![b].width = width]
set_width(h, b, width) == [h EXCEPT ![b].width = Max2(@, width)]

set_height(h, b, height) == [h EXCEPT ![b].height = Max2(@, height)]

\* Block.__init__ after the subclass has set text / blocks: the object is
\* appended to the heap with its sizes at their minimums
NewBlock(h, kind, text) ==
    LET o == [kind |-> kind, text |-> text, blocks |-> <<>>, width |-> 0, height |-> 0]
        h1 == Append(h, o)
        b == Len(h1)
    IN [h1 EXCEPT ![b].width = get_min_width(h1, b),
                  ![b].height = get_min_height(h1, b)]

\* Column.add_block and Row.add_block (the same three statements)
add_block(h, c, b) ==
    LET h1 == [h EXCEPT ![c].blocks = Append(@, b)]
        h2 == set_width(h1, c, get_min_width(h1, c))
    IN set_height(h2, c, get_min_height(h2, c))

(***************************************************************************)
(* Rendering.                                                              *)
(***************************************************************************)
\* str.center(width) with the default fill character: CPython pads
\* left = marg/2 + (marg & width & 1) and the rest on the right, and returns
\* the string unchanged when it is at least `width` long
CenterRightBias(text, width) ==
    LET marg == width - Len(text)
    IN IF marg <= 0 THEN text
       ELSE Repeat(" ", marg \div 2) \o text \o Repeat(" ", marg - marg \div 2)
Center(text, width) ==
    LET marg == width - Len(text)
        left == (marg \div 2) + (IF marg % 2 = 1 /\ width % 2 = 1 THEN 1 ELSE 0)
    IN IF marg <= 0 THEN text
       ELSE Repeat(" ", left) \o text \o Repeat(" ", marg - left)

ElementLinesSymmetric(text, width, height) ==
    ListOf(Repeat(" ", width), height \div 2)
        \o <<Center(text, width)>>
        \o ListOf(Repeat(" ", width), height \div 2)
ElementLines(text, width, height) ==
    LET indent_above == IF height % 2 # 1 THEN (height \div 2) - 1 ELSE height \div 2
        indent_under == height \div 2
    IN ListOf(Repeat(" ", width), indent_above)
        \o <<Center(text, width)>>
        \o ListOf(Repeat(" ", width), indent_under)

HorizontalLineLines(width) == <<Repeat(HORIZONTAL_DELIMITER, width)>>

VerticalLineLines(height) == ListOf(VERTICAL_DELIMITER, height)

\* the inner loop of Row.get_formatted_list: line i of the child is appended
\* to the result when the result has no line i yet, else concatenated to it
RECURSIVE RowMerge(_, _, _)
RowMerge(result, lines, i) ==
    IF i > Len(lines) THEN result
    ELSE IF i > Len(result) THEN RowMerge(Append(result, lines[i]), lines, i + 1)
    ELSE RowMerge([result EXCEPT ![i] = @ \o lines[i]], lines, i + 1)

\* get_formatted_list returns the lines and, as the containers call the
\* setters of their children while rendering, the heap it leaves behind
RECURSIVE get_formatted_list(_, _)
RECURSIVE ColumnLoop(_, _, _, _)
RECURSIVE RowLoop(_, _, _, _)

ColumnLoop(h, c, i, result) ==
    IF i > Len(h[c].blocks) THEN [heap |-> h, lines |-> result]
    ELSE LET block == h[c].blocks[i]
             h1 == set_width(h, block, h[c].width)
             r == get_formatted_list(h1, block)
         IN ColumnLoop(r.heap, c, i + 1, result \o r.lines)

RowLoop(h, c, i, result) ==
    IF i > Len(h[c].blocks) THEN [heap |-> h, lines |-> result]
    ELSE LET block == h[c].blocks[i]
             h1 == set_height(h, block, h[c].height)
             r == get_formatted_list(h1, block)
         IN RowLoop(r.heap, c, i + 1, RowMerge(result, r.lines, 1))

get_formatted_list(h, b) ==
    LET o == h[b]
    IN CASE o.kind = "Element" ->
              [heap |-> h, lines |-> ElementLines(o.text, o.width, o.height)]
         [] o.kind = "HorizontalLine" ->
              [heap |-> h, lines |-> HorizontalLineLines(o.width)]
         [] o.kind = "VerticalLine" ->
              [heap |-> h, lines |-> VerticalLineLines(o.height)]
         [] o.kind = "Column" -> ColumnLoop(h, b, 1, <<>>)
         [] o.kind = "Row" -> RowLoop(h, b, 1, <<>>)

(***************************************************************************)
(* The engine's API as a state machine.                                    *)
(***************************************************************************)
Ids == 1..Len(heap)

\* the text of length n a caller passes to Element(text)
Letters == <<"a", "b", "c", "d">>
RECURSIVE TextOfLen(_)
TextOfLen(n) ==
    IF n = 0 THEN "" ELSE TextOfLen(n - 1) \o Letters[((n - 1) % Len(Letters)) + 1]
Texts == {TextOfLen(n) : n \in 0..MaxTextLen}

NoInput == [s_array |-> <<>>, c_array |-> <<>>, d_array |-> <<>>]

\* the blocks reachable from b through blocks lists, b included
RECURSIVE Reach(_, _)
Reach(h, b) ==
    {b} \cup UNION {Reach(h, h[b].blocks[i]) : i \in 1..Len(h[b].blocks)}

IsContainer(o) == o.kind \in {"Column", "Row"}

Init ==
    /\ heap = <<>>
    /\ rendered = 0
    /\ out = <<>>
    /\ calls = 0
    /\ input = NoInput
    /\ table = 0

Touch(h) ==
    /\ calls < MaxCalls
    /\ calls' = calls + 1
    /\ heap' = h
    /\ rendered' = 0
    /\ out' = <<>>
    /\ UNCHANGED <<input, table>>

NewElement ==
    \E text \in Texts : Touch(NewBlock(heap, "Element", text))

NewHorizontalLine ==
    Touch(NewBlock(heap, "HorizontalLine", ""))

NewVerticalLine ==
    Touch(NewBlock(heap, "VerticalLine", ""))

NewColumn ==
    Touch(NewBlock(heap, "Column", ""))

NewRow ==
    Touch(NewBlock(heap, "Row", ""))

\* c.add_block(b).  Adding a block from which c is reachable makes
\* get_min_width recurse without end (RecursionError); those calls are left
\* out, the engine has no state after them.
AddBlock ==
    \E c \in Ids, b \in Ids :
        /\ IsContainer(heap[c])
        /\ c \notin Reach(heap, b)
        /\ Touch(add_block(heap, c, b))

SetWidth ==
    \E b \in Ids, width \in 0..MaxSize : Touch(set_width(heap, b, width))

SetHeight ==
    \E b \in Ids, height \in 0..MaxSize : Touch(set_height(heap, b, height))

Render ==
    \E b \in Ids :
        LET r == get_formatted_list(heap, b)
        IN /\ calls < MaxCalls
           /\ calls' = calls + 1
           /\ heap' = r.heap
           /\ rendered' = b
           /\ out' = r.lines
           /\ UNCHANGED <<input, table>>

Next ==
    \/ NewElement
    \/ NewHorizontalLine
    \/ NewVerticalLine
    \/ NewColumn
    \/ NewRow
    \/ AddBlock
    \/ SetWidth
    \/ SetHeight
    \/ Render

Spec == Init /\ [][Next]_vars

\* the same engine and caller, the caller stopping after ShortCalls calls
ShortNext ==
    \/ calls < ShortCalls /\ NewElement
    \/ calls < ShortCalls /\ NewHorizontalLine
    \/ calls < ShortCalls /\ NewVerticalLine
    \/ calls < ShortCalls /\ NewColumn
    \/ calls < ShortCalls /\ NewRow
    \/ calls < ShortCalls /\ AddBlock
    \/ calls < ShortCalls /\ SetWidth
    \/ calls < ShortCalls /\ SetHeight
    \/ calls < ShortCalls /\ Render

ShortSpec == Init /\ [][ShortNext]_vars

(***************************************************************************)
(* The engine restricted to building: constructors and add_block only.     *)
(***************************************************************************)
BuildNext ==
    \/ NewElement
    \/ NewHorizontalLine
    \/ NewVerticalLine
    \/ NewColumn
    \/ NewRow
    \/ AddBlock

BuildSpec == Init /\ [][BuildNext]_vars

(***************************************************************************)
(* One Element and its caller: Element(text), then set_width, set_height   *)
(* and get_formatted_list in any order.                                    *)
(***************************************************************************)
ElementInit ==
    /\ \E n \in 0..MaxElementTextLen : heap = NewBlock(<<>>, "Element", TextOfLen(n))
    /\ rendered = 0
    /\ out = <<>>
    /\ calls = 0
    /\ input = NoInput
    /\ table = 0

ElementSetWidth ==
    \E width \in 0..MaxElementSize :
        /\ heap' = set_width(heap, 1, width)
        /\ rendered' = 0
        /\ out' = <<>>
        /\ UNCHANGED <<calls, input, table>>

ElementSetHeight ==
    \E height \in 0..MaxElementSize :
        /\ heap' = set_height(heap, 1, height)
        /\ rendered' = 0
        /\ out' = <<>>
        /\ UNCHANGED <<calls, input, table>>

ElementRender ==
    LET r == get_formatted_list(heap, 1)
    IN /\ heap' = r.heap
       /\ rendered' = 1
       /\ out' = r.lines
       /\ UNCHANGED <<calls, input, table>>

ElementNext ==
    \/ ElementSetWidth
    \/ ElementSetHeight
    \/ ElementRender

ElementSpec == ElementInit /\ [][ElementNext]_vars

(***************************************************************************)
(* TransportationProblemTableFormatter.  The arrays hold whole-valued      *)
(* floats; the natural number n stands for the float n.0.                  *)
(***************************************************************************)
DigitChars == <<"0", "1", "2", "3", "4", "5", "6", "7", "8", "9">>

\* str(n) of a non-negative int
RECURSIVE IntStr(_)
IntStr(n) ==
    IF n < 10 THEN DigitChars[n + 1] ELSE IntStr(n \div 10) \o DigitChars[(n % 10) + 1]

\* str(x) of the whole-valued float x = n.0
FloatStr(n) == IntStr(n) \o ".0"

\* str(sum(s_array)): sum() of an empty array is the int 0
TotalStr(s_array) == IF s_array = <<>> THEN "0" ELSE FloatStr(SumOf(s_array))

\* statement sequencing: x is computed first, then F of its value
Then(x, F(_)) == CHOOSE r \in {F(v) : v \in {x}} : TRUE

\* b = Kind(...); c.add_block(b)
AddNew(h, c, kind, text) ==
    LET h1 == NewBlock(h, kind, text)
    IN add_block(h1, c, Len(h1))

\* for text in texts: c.add_block(Element(text))
RECURSIVE AddElements(_, _, _)
AddElements(h, c, texts) ==
    IF texts = <<>> THEN h
    ELSE AddElements(AddNew(h, c, "Element", texts[1]), c, Tail(texts))

\* a title cell: Element(text), set_height(3), then added to column c
AddTitleUnraised(h, c, text) ==
    LET h1 == NewBlock(h, "Element", text)
    IN add_block(h1, c, Len(h1))
AddTitle(h, c, text) ==
    LET h1 == NewBlock(h, "Element", text)
        title == Len(h1)
    IN add_block(set_height(h1, title, 3), c, title)

\* each returns the heap with the new blocks and the block it returns
_create_source_column(h, inp) ==
    LET h1 == NewBlock(h, "Column", "")
        source_column == Len(h1)
        h2 == AddTitle(h1, source_column, "Source")
        h3 == AddNew(h2, source_column, "HorizontalLine", "")
        h4 == AddElements(h3, source_column,
                  [i \in 1..Len(inp.s_array) |-> "A" \o IntStr(i)])
        h5 == AddNew(h4, source_column, "HorizontalLine", "")
        h6 == AddNew(h5, source_column, "Element", "Demand")
    IN [heap |-> h6, block |-> source_column]

\* the body of the loop over destinations, for destination i (from 1)
DestinationColumn(h, inp, destination_columns, i) ==
    LET h1 == NewBlock(h, "Column", "")
        destination_column == Len(h1)
        h2 == AddNew(h1, destination_column, "Element", "D" \o IntStr(i))
        h3 == AddNew(h2, destination_column, "HorizontalLine", "")
        h4 == AddElements(h3, destination_column,
                  [j \in 1..Len(inp.s_array) |-> FloatStr(inp.c_array[j][i])])
        h5 == AddNew(h4, destination_column, "HorizontalLine", "")
        h6 == AddNew(h5, destination_column, "Element", FloatStr(inp.d_array[i]))
    IN add_block(h6, destination_columns, destination_column)

RECURSIVE DestinationLoop(_, _, _, _)
DestinationLoop(h, inp, destination_columns, i) ==
    IF i > Len(inp.d_array) THEN h
    ELSE Then(DestinationColumn(h, inp, destination_columns, i),
              LAMBDA h1 : DestinationLoop(h1, inp, destination_columns, i + 1))

_create_destination_table(h, inp) ==
    LET h1 == NewBlock(h, "Row", "")
        destination_columns == Len(h1)
    IN Then(DestinationLoop(h1, inp, destination_columns, 1), LAMBDA h2 :
        LET h3 == NewBlock(h2, "Column", "")
            destination_table == Len(h3)
            h4 == AddNew(h3, destination_table, "Element", "Destination")
            h5 == AddNew(h4, destination_table, "HorizontalLine", "")
            h6 == add_block(h5, destination_table, destination_columns)
        IN [heap |-> h6, block |-> destination_table])

_create_supply_column(h, inp) ==
    LET h1 == NewBlock(h, "Column", "")
        supply_column == Len(h1)
        h2 == AddTitle(h1, supply_column, "Supply")
        h3 == AddNew(h2, supply_column, "HorizontalLine", "")
        h4 == AddElements(h3, supply_column,
                  [i \in 1..Len(inp.s_array) |-> FloatStr(inp.s_array[i])])
        h5 == AddNew(h4, supply_column, "HorizontalLine", "")
        h6 == AddNew(h5, supply_column, "Element", TotalStr(inp.s_array))
    IN [heap |-> h6, block |-> supply_column]

_create_table(h, inp) ==
    Then(_create_source_column(h, inp), LAMBDA source :
    Then(_create_destination_table(source.heap, inp), LAMBDA destination :
    Then(_create_supply_column(destination.heap, inp), LAMBDA supply :
        LET h1 == NewBlock(supply.heap, "Row", "")
            tbl == Len(h1)
            h2 == AddNew(h1, tbl, "VerticalLine", "")
            h3 == add_block(h2, tbl, source.block)
            h4 == AddNew(h3, tbl, "VerticalLine", "")
            h5 == add_block(h4, tbl, destination.block)
            h6 == AddNew(h5, tbl, "VerticalLine", "")
            h7 == add_block(h6, tbl, supply.block)
            h8 == AddNew(h7, tbl, "VerticalLine", "")
            h9 == NewBlock(h8, "Column", "")
            table_with_horizontal_lines == Len(h9)
            h10 == AddNew(h9, table_with_horizontal_lines, "HorizontalLine", "")
            h11 == add_block(h10, table_with_horizontal_lines, tbl)
            h12 == AddNew(h11, table_with_horizontal_lines, "HorizontalLine", "")
        IN [heap |-> h12, block |-> table_with_horizontal_lines])))

\* the table of the module docstring
DocstringInput ==
    [s_array |-> <<140, 180, 160>>,
     c_array |-> <<<<2, 3, 4, 2, 4>>, <<8, 4, 1, 4, 1>>, <<9, 7, 3, 7, 2>>>>,
     d_array |-> <<60, 70, 120, 130, 100>>]

DocstringTable ==
    << "-----------------------------------------------------",
       "|        |           Destination           |        |",
       "| Source |---------------------------------| Supply |",
       "|        |  D1    D2     D3     D4     D5  |        |",
       "|--------|---------------------------------|--------|",
       "|   A1   | 2.0   3.0    4.0    2.0    4.0  | 140.0  |",
       "|   A2   | 8.0   4.0    1.0    4.0    1.0  | 180.0  |",
       "|   A3   | 9.0   7.0    3.0    7.0    2.0  | 160.0  |",
       "|--------|---------------------------------|--------|",
       "| Demand | 60.0  70.0  120.0  130.0  100.0 | 480.0  |",
       "-----------------------------------------------------" >>

RECURSIVE Pow10(_)
Pow10(k) == IF k = 0 THEN 1 ELSE 10 * Pow10(k - 1)

\* the values the arrays of the small tables are filled with
Values == {Pow10(k) : k \in 0..(MaxDigits - 1)}

UniformInput(nS, nD, sv, cv, dv) ==
    [s_array |-> [j \in 1..nS |-> sv],
     c_array |-> [j \in 1..nS |-> [i \in 1..nD |-> cv]],
     d_array |-> [i \in 1..nD |-> dv]]

TableInputs ==
    {DocstringInput} \cup
    {UniformInput(nS, nD, sv, cv, dv) :
        nS \in 0..MaxSources, nD \in 0..MaxDestinations,
        sv \in Values, cv \in Values, dv \in Values}

\* TransportationProblemTableFormatter(s_array, c_array, d_array)
TableInit ==
    /\ heap = <<>>
    /\ rendered = 0
    /\ out = <<>>
    /\ calls = 0
    /\ input \in TableInputs
    /\ table = 0

\* format(): builds the tree and returns its root (called once per run)
Format ==
    /\ table = 0
    /\ LET t == _create_table(heap, input)
       IN /\ heap' = t.heap
          /\ table' = t.block
    /\ rendered' = 0
    /\ out' = <<>>
    /\ UNCHANGED <<calls, input>>

\* get_formatted_list() of the block format() returned
RenderTable ==
    /\ table # 0
    /\ LET r == get_formatted_list(heap, table)
       IN /\ heap' = r.heap
          /\ out' = r.lines
    /\ rendered' = table
    /\ UNCHANGED <<calls, input, table>>

TableNext ==
    \/ Format
    \/ RenderTable

TableSpec == TableInit /\ [][TableNext]_vars

(***************************************************************************)
(* Properties.                                                             *)
(***************************************************************************)
Spaces(n) == Repeat(" ", n)

\* the lines block b returns when it is rendered in heap h
LinesOf(h, b) == get_formatted_list(h, b).lines

\* the concatenation of line i of every block of bs, in order
RECURSIVE JoinLine(_, _, _)
JoinLine(h, bs, i) ==
    IF bs = <<>> THEN "" ELSE LinesOf(h, bs[1])[i] \o JoinLine(h, Tail(bs), i)

\* the 1-based position of floor((height - 1) / 2), 0-based
TextIndex(height) == ((height - 1) \div 2) + 1

\* C1: every block has width >= get_min_width() and height >= get_min_height(),
\* the minimum of a container recomputed from its current children, in every
\* state the API reaches.
C1_SizeAtLeastMinimum ==
    \A b \in Ids :
        /\ heap[b].width >= get_min_width(heap, b)
        /\ heap[b].height >= get_min_height(heap, b)

\* C2: get_formatted_list() of any block returns exactly `height` strings of
\* exactly `width` characters each, width and height being the block's own.
C2_RenderIsHeightByWidth ==
    rendered # 0 /\ table = 0 =>
        /\ Len(out) = heap[rendered].height
        /\ \A i \in 1..Len(out) : Len(out[i]) = heap[rendered].width

\* C3: the lines of the rendered table all have the root's width, and the
\* children of every Row of the tree render to the same number of lines.
C3_TableIsRectangular ==
    rendered # 0 /\ rendered = table =>
        /\ \A i \in 1..Len(out) : Len(out[i]) = heap[table].width
        /\ \A r \in Ids : heap[r].kind = "Row" =>
              \A i, j \in 1..Len(heap[r].blocks) :
                  Len(LinesOf(heap, heap[r].blocks[i]))
                      = Len(LinesOf(heap, heap[r].blocks[j]))

\* C4: the table built from the arrays of the module docstring renders to
\* exactly the 11 lines of the docstring.
C4_DocstringTable ==
    rendered # 0 /\ rendered = table /\ input = DocstringInput =>
        out = DocstringTable

C4_Witness ==
    /\ rendered # 0
    /\ rendered = table
    /\ input = DocstringInput
    /\ Len(out) = 11
    /\ Len(heap[table].blocks) = 3

\* C5 as stated: the text line of an Element is the text after
\* floor((w - n) / 2) spaces and before ceil((w - n) / 2) spaces, for every
\* parity of n and w.
C5_ExtraSpaceOnTheRight ==
    rendered = 1 /\ table = 0 =>
        LET o == heap[1]
            marg == o.width - Len(o.text)
        IN out[TextIndex(o.height)]
               = Spaces(marg \div 2) \o o.text \o Spaces(marg - (marg \div 2))

\* C5 as amended: the text line of an Element is the text between
\* floor((w - n) / 2) and ceil((w - n) / 2) spaces; when w - n is odd the
\* extra space is on the right if w is even and on the left if w is odd.
C5_ExtraSpaceByParityOfWidth ==
    rendered = 1 /\ table = 0 =>
        LET o == heap[1]
            marg == o.width - Len(o.text)
            small == marg \div 2
            large == marg - small
            line == out[TextIndex(o.height)]
        IN /\ marg >= 2
           /\ o.width % 2 = 0 => line = Spaces(small) \o o.text \o Spaces(large)
           /\ o.width % 2 = 1 => line = Spaces(large) \o o.text \o Spaces(small)

C5_Witness ==
    /\ rendered = 1
    /\ table = 0
    /\ heap[1].text = "ab"
    /\ heap[1].width = 5
    /\ out[TextIndex(heap[1].height)] = "  ab "

\* C6: an Element of height h renders to h lines; the text line is at 0-based
\* index floor((h - 1) / 2), every other line is `width` spaces; above it are
\* h \div 2 blank lines for odd h and h \div 2 - 1 for even h, under it h \div 2.
C6_ElementVerticalCentering ==
    rendered = 1 /\ table = 0 =>
        LET o == heap[1]
            h == o.height
            above == IF h % 2 = 1 THEN h \div 2 ELSE (h \div 2) - 1
        IN /\ h >= 1
           /\ Len(out) = h
           /\ TextIndex(h) = above + 1
           /\ h - TextIndex(h) = h \div 2
           /\ \A i \in 1..h :
                 IF i = TextIndex(h)
                 THEN /\ Len(out[i]) = o.width
                      /\ \E l, r \in 0..o.width : out[i] = Spaces(l) \o o.text \o Spaces(r)
                 ELSE out[i] = Spaces(o.width)

C6_Witness ==
    /\ rendered = 1
    /\ table = 0
    /\ heap[1].height = 4
    /\ heap[1].text = "a"
    /\ out = <<Spaces(heap[1].width), Center("a", heap[1].width),
               Spaces(heap[1].width), Spaces(heap[1].width)>>

\* C7: set_width(w) leaves width = max(previous width, w) and set_height(h)
\* height = max(previous height, h), so a value <= the current size changes
\* nothing and a repeated call changes nothing more; and no step of the API
\* (add_block and render included) decreases the width or height of a block.
C7_SetterLeavesMaximum ==
    \A b \in Ids : \A v \in 0..(MaxSize + 1) :
        LET w == set_width(heap, b, v)
            h == set_height(heap, b, v)
        IN /\ w[b].width = (IF v > heap[b].width THEN v ELSE heap[b].width)
           /\ h[b].height = (IF v > heap[b].height THEN v ELSE heap[b].height)
           /\ v <= heap[b].width => w = heap
           /\ v <= heap[b].height => h = heap
           /\ set_width(w, b, v) = w
           /\ set_height(h, b, v) = h
           /\ \A c \in Ids \ {b} : w[c] = heap[c] /\ h[c] = heap[c]
           /\ w[b].height = heap[b].height /\ h[b].width = heap[b].width

C7_NoStepShrinks ==
    /\ Len(heap') >= Len(heap)
    /\ \A b \in 1..Len(heap) :
          /\ heap'[b].width >= heap[b].width
          /\ heap'[b].height >= heap[b].height

C7_SettersMonotone == [](C7_SetterLeavesMaximum) /\ [][C7_NoStepShrinks]_vars

\* a VerticalLine widened by set_width has been added to a column: add_block
\* has called the column's setters and the line keeps its width
C7_Witness ==
    \E c, b \in Ids :
        /\ heap[c].kind = "Column"
        /\ heap[c].blocks = <<b>>
        /\ heap[c].width = 1
        /\ heap[b].kind = "VerticalLine"
        /\ heap[b].width = MaxSize
        /\ MaxSize > 1

\* C8: a Column's minimum width is the maximum of its children's minimum
\* widths and its minimum height their sum; a Row's minimum width is the sum
\* and its minimum height the maximum; an empty Row or Column has minimum
\* width and height 0, width and height 0, and renders to no line.
C8_ContainerMinimums ==
    \A b \in Ids : IsContainer(heap[b]) =>
        LET kids == heap[b].blocks
            n == Len(kids)
            mw == get_min_width(heap, b)
            mh == get_min_height(heap, b)
            kw(i) == get_min_width(heap, kids[i])
            kh(i) == get_min_height(heap, kids[i])
            TotalW[k \in 0..n] == IF k = 0 THEN 0 ELSE TotalW[k - 1] + kw(k)
            TotalH[k \in 0..n] == IF k = 0 THEN 0 ELSE TotalH[k - 1] + kh(k)
            IsMaxW == (\A i \in 1..n : mw >= kw(i)) /\ (\E i \in 1..n : mw = kw(i))
            IsMaxH == (\A i \in 1..n : mh >= kh(i)) /\ (\E i \in 1..n : mh = kh(i))
        IN IF n = 0
           THEN /\ mw = 0
                /\ mh = 0
                /\ heap[b].width = 0
                /\ heap[b].height = 0
                /\ LinesOf(heap, b) = <<>>
           ELSE /\ heap[b].kind = "Column" => IsMaxW /\ mh = TotalH[n]
                /\ heap[b].kind = "Row" => mw = TotalW[n] /\ IsMaxH

C8_Witness ==
    \E c \in Ids :
        /\ heap[c].kind = "Column"
        /\ Len(heap[c].blocks) = 2
        /\ get_min_width(heap, heap[c].blocks[1]) = 2
        /\ get_min_width(heap, heap[c].blocks[2]) = 3
        /\ get_min_width(heap, c) = 3
        /\ get_min_height(heap, c) = 2

\* C9: after Column.get_formatted_list() every child's width equals the
\* column's width and every line of the output has that length.
C9_ColumnChildrenShareWidth ==
    rendered # 0 /\ table = 0 /\ heap[rendered].kind = "Column" =>
        /\ \A i \in 1..Len(heap[rendered].blocks) :
              heap[heap[rendered].blocks[i]].width = heap[rendered].width
        /\ \A i \in 1..Len(out) : Len(out[i]) = heap[rendered].width

\* C10: after Row.get_formatted_list() every child renders to exactly
\* row.height lines, and line i of the row's output is the concatenation, in
\* child order, of line i of every child.
C10_RowConcatenatesChildren ==
    rendered # 0 /\ table = 0 /\ heap[rendered].kind = "Row" =>
        /\ \A i \in 1..Len(heap[rendered].blocks) :
              Len(LinesOf(heap, heap[rendered].blocks[i])) = heap[rendered].height
        /\ Len(heap[rendered].blocks) > 0 => Len(out) = heap[rendered].height
        /\ \A i \in 1..Len(out) : out[i] = JoinLine(heap, heap[rendered].blocks, i)

====
